---- MODULE Spec2Model ----
(***************************************************************************)
(* A model of the VoterFile data pipeline: the voter store, the import     *)
(* script (importDistrict / processBatch), the upload handler with its     *)
(* import job and progress cache, the filter predicate and the dynamic     *)
(* list populator.                                                         *)
(*                                                                         *)
(* The module holds several specifications over one set of variables;      *)
(* each specification moves the variables of the component it is about     *)
(* and leaves the others at their initial value:                           *)
(*   SpecImport   the import script running against the voter store,       *)
(*                interleaved with manual voter creation                   *)
(*   SpecUpload   one upload: the handlers of its file stream, the batch   *)
(*                writes and the import job                                *)
(*   SpecStatus   one upload of voters and GET /import/jobs/:id reads of   *)
(*                its job, interleaved with the handlers                   *)
(*   SpecUploadFair  SpecUpload in which every awaited statement settles   *)
(*   SpecLists    add, remove and populate requests on the voter lists,    *)
(*                interleaved between their statements                     *)
(*   SpecFilter   the WHERE clauses of the populator and of the voter      *)
(*                search, evaluated on one row                             *)
(*   SpecInteractions  interaction requests, interleaved between their     *)
(*                statements                                               *)
(*   SpecParse    the two line parsers applied to one line                 *)
(***************************************************************************)
EXTENDS Integers, Sequences, FiniteSets, TLC

(***************************************************************************)
(* Bounds of the model.                                                    *)
(***************************************************************************)
\* rows of one imported file (the header line is not counted)
MaxFileRows == 2
\* characters of a parsed line
MaxLineLen == 5
\* manual voter creations in one behaviour
MaxManual == 1
\* statements the database rejects in one behaviour
MaxDbFailures == 1
\* BATCH_SIZE of the script and of the upload handler (1000 in the source),
\* scaled to the file sizes
BATCH_SIZE == 2
\* data rows of an uploaded file whose column mapping is an object
MaxRows == 5
\* data rows of an uploaded file whose column mapping is null
MaxErrRows == 500
\* complete lines in one chunk of the upload stream
MaxChunkLines == 3
\* fields carried by a criteria object or a query string
MaxPopulated == 2
\* columns of a voter row that are not NULL, the tenant and identifier aside
MaxRowFields == 2
\* list requests (add, remove, populate) in one behaviour
MaxListOps == 3
\* batchSize of the populator (1000 in the source), scaled to the table
batchSize == 2
\* interaction requests in one behaviour
MaxInteractions == 3

(***************************************************************************)
(* Constants of the program.                                               *)
(***************************************************************************)
\* the cap of the error list: `errors.length < 100`
ErrorCap == 100

(***************************************************************************)
(* Values.                                                                 *)
(***************************************************************************)
\* SQL NULL / JavaScript undefined in a text column
NULL == "<null>"
\* SQL NULL in the integer column support_level (levels are 1..5)
NoLevel == 0

Orgs == {1, 2}
\* the organization getOrCreateOrganization() resolves ('minnesota-default')
ScriptOrg == 1
\* String(districtNum) of the district file being imported
ScriptDistrict == "1"

Runs == {1, 2}
\* the stateVoterId of a manually created voter (NULL: the body carries none)
ManualIds == {"V1", NULL}

VARIABLES
    voters,      \* table voters: sequence of rows, the serial id is the index
    elections,   \* table election_history: sequence of rows
    imp,         \* imp[r]: the local state of import script run r
    hist,        \* hist[r]: what held when run r started and ended
    manual,      \* the organizations of the manual creations so far
    dbFailures,  \* number of rejected statements so far
    csvFile,     \* the data rows of District<nn>_Unified.csv
    job,         \* the import_jobs row of the upload
    progress,    \* importProgress.get(jobId), or NoProgress
    up,          \* the locals of busboy.on('file'): buffer, batch, counters
    stream,      \* the uploaded file stream: flowing, ended, errored
    dataH,       \* the suspended file.on('data') handler, if any
    endH,        \* the file.on('end') handler
    errH,        \* the file.on('error') handler
    writes,      \* the batch writes submitted to the store, in order
    rd,          \* the status read GET /jobs/:id in progress
    lists,       \* table voter_lists: organizationId and filterCriteria
    members,     \* table voter_list_members: (listId, voterId), unique
    pop,         \* pop[p]: the state of populate request p
    listOps,     \* number of list requests received so far
    lastResp,    \* the response to the last add or remove request
    flt,         \* the filter evaluation: input, tenant, row, result
    inter,       \* table interactions: sequence of rows
    ireq,        \* ireq[r]: the state of interaction request r
    interOps,    \* number of interaction requests received so far
    reply,       \* the response of the upload request: status and job id
    prs          \* one line and the fields each line parser made of it

storeVars == <<voters, elections, imp, hist, manual, dbFailures, csvFile>>
uploadVars == <<job, progress, up, stream, dataH, endH, errH, writes, rd,
               reply>>
listVars == <<lists, members, pop, listOps, lastResp>>
filterVars == <<flt>>
interVars == <<inter, ireq, interOps>>
parseVars == <<prs>>
vars == <<storeVars, uploadVars, listVars, filterVars, interVars,
          parseVars>>

(***************************************************************************)
(* The voter store.                                                        *)
(***************************************************************************)
\* a row of table voters with the columns the pipeline reads or writes
VoterRow(org, svid, lastName) ==
    [ organizationId        |-> org,
      stateVoterId          |-> svid,
      lastName              |-> lastName,
      congressionalDistrict |-> NULL,
      legislativeDistrict   |-> NULL,
      stateSenateDistrict   |-> NULL,
      countyCode            |-> NULL,
      city                  |-> NULL,
      zipCode               |-> NULL,
      supportLevel          |-> NoLevel,
      phone                 |-> NULL,
      email                 |-> NULL ]

VoterKeys == DOMAIN voters

\* ids of the rows WHERE state_voter_id = svid; the script's lookup carries no
\* organization predicate
SelectByStateVoterId(svid, org) ==
    { id \in VoterKeys : voters[id].stateVoterId = svid }

\* the rows of one tenant
TenantRows(org) == { id \in VoterKeys : voters[id].organizationId = org }

(***************************************************************************)
(* Import script: importDistrict and its processBatch.                     *)
(***************************************************************************)
FileRow ==
    { [VoterId |-> "V1", LastName |-> "Lee",  elections |-> <<"E1">>],
      [VoterId |-> "V1", LastName |-> "Lee2", elections |-> <<>>],
      [VoterId |-> "V2", LastName |-> "Lee",  elections |-> <<>>],
      [VoterId |-> "",   LastName |-> "Lee",  elections |-> <<>>] }

Files == UNION { [1..n -> FileRow] : n \in 1..MaxFileRows }

ZeroStats == [ totalRows |-> 0, imported |-> 0, updated |-> 0,
               skipped |-> 0, errors |-> 0, electionRecords |-> 0 ]

IdleRun == [ pc |-> "idle", lineNo |-> 0,
             voterBatch |-> <<>>, electionBatch |-> <<>>,
             idx |-> 0, existing |-> 0, eidx |-> 0, final |-> FALSE,
             stats |-> ZeroStats ]

\* what is remembered of a run to state claims about it: whether the tenant
\* held an identifier of the file when it started, the tenant's row count when
\* it returned, the runs that had returned when it started, whether another
\* run was in progress during it, and the statements rejected during it
NoHist == [ heldAtStart |-> FALSE, rowsAtEnd |-> 0,
            doneBefore |-> {}, overlapped |-> FALSE, failures |-> 0 ]

\* the VoterRecord the script builds from a data row
BuildVoter(row) ==
    [ stateVoterId          |-> row.VoterId,
      organizationId        |-> ScriptOrg,
      lastName              |-> row.LastName,
      congressionalDistrict |-> ScriptDistrict ]

\* db.update(voters).set({...voter}).where(id = existing)
UpdateVoter(id, v) ==
    [ voters EXCEPT ![id].organizationId = v.organizationId,
                    ![id].stateVoterId = v.stateVoterId,
                    ![id].lastName = v.lastName,
                    ![id].congressionalDistrict = v.congressionalDistrict ]

\* db.insert(voters).values(voter): the table has no unique index on
\* (organization_id, state_voter_id), so the insert always succeeds
InsertVoter(v) ==
    Append(voters,
           [ VoterRow(v.organizationId, v.stateVoterId, v.lastName)
               EXCEPT !.congressionalDistrict = v.congressionalDistrict ])

Running(r) == imp[r].pc \notin {"idle", "done"}

\* importDistrict opens the file and reads the header line
StartRun(r) ==
    /\ imp[r].pc = "idle"
    /\ imp' = [imp EXCEPT ![r] = [IdleRun EXCEPT !.pc = "line"]]
    /\ hist' = [q \in Runs |->
          IF q = r
          THEN [ heldAtStart |-> \E i \in 1..Len(csvFile) :
                     \E id \in TenantRows(ScriptOrg) :
                         voters[id].stateVoterId = csvFile[i].VoterId,
                 rowsAtEnd   |-> 0,
                 doneBefore  |-> { d \in Runs : imp[d].pc = "done" },
                 overlapped  |-> \E o \in Runs \ {r} : Running(o),
                 failures    |-> 0 ]
          ELSE [hist[q] EXCEPT !.overlapped = @ \/ Running(q)]]
    /\ UNCHANGED <<voters, elections, manual, dbFailures, csvFile, uploadVars, listVars, filterVars, interVars, parseVars>>

\* what processBatch does on entry: return at once on an empty batch
EnterBatch(run, final) ==
    IF run.voterBatch = <<>>
    THEN [run EXCEPT !.pc = IF final THEN "return" ELSE "line"]
    ELSE [run EXCEPT !.pc = "select", !.idx = 1, !.final = final]

\* one iteration of `for await (const line of rl)`
ReadLine(r) ==
    LET run == imp[r]
        n   == run.lineNo + 1
        row == csvFile[n]
        v   == BuildVoter(row)
        counted == [run EXCEPT !.lineNo = n, !.stats.totalRows = @ + 1]
    IN
    /\ run.pc = "line"
    /\ run.lineNo < Len(csvFile)
    /\ imp' = [imp EXCEPT ![r] =
          IF v.stateVoterId = ""
          THEN [counted EXCEPT !.stats.skipped = @ + 1]
          ELSE LET pushed == [counted EXCEPT
                       !.voterBatch = Append(@, v),
                       !.electionBatch = Append(@,
                           [stateVoterId |-> v.stateVoterId,
                            elections |-> row.elections])]
               IN IF Len(pushed.voterBatch) >= BATCH_SIZE
                  THEN EnterBatch(pushed, FALSE)
                  ELSE pushed]
    /\ UNCHANGED <<voters, elections, hist, manual, dbFailures, csvFile, uploadVars, listVars, filterVars, interVars, parseVars>>

\* the loop is over: `await processBatch()` for the remaining records
EndOfFile(r) ==
    LET run == imp[r] IN
    /\ run.pc = "line"
    /\ run.lineNo = Len(csvFile)
    /\ imp' = [imp EXCEPT ![r] = EnterBatch(run, TRUE)]
    /\ UNCHANGED <<voters, elections, hist, manual, dbFailures, csvFile, uploadVars, listVars, filterVars, interVars, parseVars>>

\* processBatch: the SELECT ... LIMIT 1 for the current voter of the batch.
\* Without ORDER BY the store may return any matching row.
SelectExisting(r) ==
    LET run == imp[r]
        hit == SelectByStateVoterId(run.voterBatch[run.idx].stateVoterId,
                                    ScriptOrg)
    IN
    /\ run.pc = "select"
    /\ \E id \in (IF hit = {} THEN {0} ELSE hit) :
           imp' = [imp EXCEPT ![r].pc = "write", ![r].existing = id]
    /\ UNCHANGED <<voters, elections, hist, manual, dbFailures, csvFile, uploadVars, listVars, filterVars, interVars, parseVars>>

\* the state of the run after the last voter of the batch was written
AfterVoter(run) ==
    IF run.idx < Len(run.voterBatch)
    THEN [run EXCEPT !.pc = "select", !.idx = @ + 1, !.existing = 0]
    ELSE [run EXCEPT !.pc = "eselect", !.eidx = 1, !.existing = 0]

\* processBatch: UPDATE the row found, or INSERT a new one
WriteVoter(r) ==
    LET run == imp[r]
        v   == run.voterBatch[run.idx]
    IN
    /\ run.pc = "write"
    /\ IF run.existing # 0
       THEN /\ voters' = UpdateVoter(run.existing, v)
            /\ imp' = [imp EXCEPT ![r] =
                         AfterVoter([run EXCEPT !.stats.updated = @ + 1])]
       ELSE /\ voters' = InsertVoter(v)
            /\ imp' = [imp EXCEPT ![r] =
                         AfterVoter([run EXCEPT !.stats.imported = @ + 1])]
    /\ UNCHANGED <<elections, hist, manual, dbFailures, csvFile, uploadVars, listVars, filterVars, interVars, parseVars>>

\* processBatch returns: both batches are reset
LeaveBatch(run) ==
    [run EXCEPT !.pc = IF run.final THEN "return" ELSE "line",
                !.voterBatch = <<>>, !.electionBatch = <<>>,
                !.idx = 0, !.eidx = 0, !.existing = 0]

AfterElectionItem(run) ==
    IF run.eidx < Len(run.electionBatch)
    THEN [run EXCEPT !.pc = "eselect", !.eidx = @ + 1, !.existing = 0]
    ELSE LeaveBatch(run)

\* processBatch: look the parent voter of an election item up
SelectParent(r) ==
    LET run  == imp[r]
        item == run.electionBatch[run.eidx]
        hit  == SelectByStateVoterId(item.stateVoterId, ScriptOrg)
    IN
    /\ run.pc = "eselect"
    /\ \E id \in (IF hit = {} THEN {0} ELSE hit) :
           imp' = [imp EXCEPT ![r] =
               IF id # 0 /\ Len(item.elections) > 0
               THEN [run EXCEPT !.pc = "einsert", !.existing = id]
               ELSE AfterElectionItem(run)]
    /\ UNCHANGED <<voters, elections, hist, manual, dbFailures, csvFile, uploadVars, listVars, filterVars, interVars, parseVars>>

\* processBatch: INSERT the election row ... ON CONFLICT DO NOTHING; table
\* election_history has no unique index, so no insert ever conflicts
InsertElection(r) ==
    LET run  == imp[r]
        item == run.electionBatch[run.eidx]
    IN
    /\ run.pc = "einsert"
    /\ elections' = Append(elections,
           [ voterId |-> run.existing, organizationId |-> ScriptOrg,
             electionDate |-> item.elections[1] ])
    /\ imp' = [imp EXCEPT ![r] =
           AfterElectionItem([run EXCEPT !.stats.electionRecords = @ + 1])]
    /\ UNCHANGED <<voters, hist, manual, dbFailures, csvFile, uploadVars, listVars, filterVars, interVars, parseVars>>

\* a statement of the voter loop or a parent lookup is rejected: the catch of
\* processBatch counts the whole batch as errors and resets the batches
BatchError(r) ==
    LET run == imp[r] IN
    /\ run.pc \in {"select", "write", "eselect"}
    /\ dbFailures < MaxDbFailures
    /\ dbFailures' = dbFailures + 1
    /\ imp' = [imp EXCEPT ![r] =
           LeaveBatch([run EXCEPT !.stats.errors = @ + Len(run.voterBatch)])]
    /\ hist' = [hist EXCEPT ![r].failures = @ + 1]
    /\ UNCHANGED <<voters, elections, manual, csvFile, uploadVars, listVars, filterVars, interVars, parseVars>>

\* an election insert is rejected: the inner catch ignores it
ElectionError(r) ==
    LET run == imp[r] IN
    /\ run.pc = "einsert"
    /\ dbFailures < MaxDbFailures
    /\ dbFailures' = dbFailures + 1
    /\ imp' = [imp EXCEPT ![r] = AfterElectionItem(run)]
    /\ hist' = [hist EXCEPT ![r].failures = @ + 1]
    /\ UNCHANGED <<voters, elections, manual, csvFile, uploadVars, listVars, filterVars, interVars, parseVars>>

\* importDistrict returns its stats
FinishRun(r) ==
    /\ imp[r].pc = "return"
    /\ imp' = [imp EXCEPT ![r].pc = "done"]
    /\ hist' = [hist EXCEPT ![r].rowsAtEnd = Cardinality(TenantRows(ScriptOrg))]
    /\ UNCHANGED <<voters, elections, manual, dbFailures, csvFile, uploadVars, listVars, filterVars, interVars, parseVars>>

(***************************************************************************)
(* Manual voter creation: POST /voters.                                    *)
(***************************************************************************)
CreateVoter(org, svid, lastName) ==
    /\ Len(manual) < MaxManual
    /\ manual' = Append(manual, org)
    /\ voters' = Append(voters, VoterRow(org, svid, lastName))
    /\ UNCHANGED <<elections, imp, hist, dbFailures, csvFile, uploadVars, listVars, filterVars, interVars, parseVars>>

(***************************************************************************)
(* Line parsers: parseCSVLine of the upload routes, which trims every      *)
(* field, and parseCSVLine of the import script, which does not.  A line   *)
(* and a field are sequences of characters.                                *)
(***************************************************************************)
Quote == "\""
Comma == ","
Space == " "

\* the characters lines are drawn from
Chars == {Quote, Comma, Space, "a"}

\* the line of the specification's example: "Smith, ""Bob""",555-1234
ExampleLine ==
    << Quote, "S", "m", "i", "t", "h", Comma, Space, Quote, Quote, "B", "o",
       "b", Quote, Quote, Quote, Comma, "5", "5", "5", "-", "1", "2", "3",
       "4" >>

Lines == UNION { [1..n -> Chars] : n \in 0..MaxLineLen } \cup {ExampleLine}

\* String.prototype.trim on the characters of the model
RECURSIVE Trim(_)
Trim(str) ==
    IF str = <<>> THEN str
    ELSE IF Head(str) = Space THEN Trim(Tail(str))
    ELSE IF str[Len(str)] = Space THEN Trim(SubSeq(str, 1, Len(str) - 1))
    ELSE str

\* a quote that does not open or close a quoted field
MutIsEscaped(line, i, inQuotes) == FALSE

\* inQuotes && line[i + 1] === '"'
IsEscaped(line, i, inQuotes) ==
    inQuotes /\ i + 1 <= Len(line) /\ line[i + 1] = Quote

\* result.push(current.trim()) of the upload parser, result.push(current) of
\* the script parser
Push(result, current, trim) ==
    Append(result, IF trim THEN Trim(current) ELSE current)

\* the for loop of parseCSVLine from index i on, and the push after it
RECURSIVE ParseFrom(_, _, _, _, _, _)
ParseFrom(line, i, current, inQuotes, result, trim) ==
    IF i > Len(line) THEN Push(result, current, trim)
    ELSE LET char == line[i] IN
         IF char = Quote
         THEN IF IsEscaped(line, i, inQuotes)
              THEN ParseFrom(line, i + 2, Append(current, Quote), inQuotes,
                             result, trim)
              ELSE ParseFrom(line, i + 1, current, ~inQuotes, result, trim)
         ELSE IF char = Comma /\ ~inQuotes
              THEN ParseFrom(line, i + 1, <<>>, inQuotes,
                             Push(result, current, trim), trim)
              ELSE ParseFrom(line, i + 1, Append(current, char), inQuotes,
                             result, trim)

\* parseCSVLine of the upload routes
ParseCSVLineUpload(line) == ParseFrom(line, 1, <<>>, FALSE, <<>>, TRUE)

\* parseCSVLine of the import script
ParseCSVLineScript(line) == ParseFrom(line, 1, <<>>, FALSE, <<>>, FALSE)

\* the line has not been parsed (a parse gives at least one field)
NoFields == <<>>

ParserAtRest ==
    prs = [line |-> <<>>, upload |-> NoFields, script |-> NoFields,
           row |-> "none"]

\* the upload handler parses the line
ParseUpload ==
    /\ prs.upload = NoFields
    /\ prs' = [prs EXCEPT !.upload = ParseCSVLineUpload(prs.line)]
    /\ UNCHANGED <<storeVars, uploadVars, listVars, filterVars, interVars>>

\* the import script parses the line
ParseScript ==
    /\ prs.script = NoFields
    /\ prs' = [prs EXCEPT !.script = ParseCSVLineScript(prs.line)]
    /\ UNCHANGED <<storeVars, uploadVars, listVars, filterVars, interVars>>

(***************************************************************************)
(* Upload handler: POST /import/upload, its import job, the progress       *)
(* cache and the status read GET /import/jobs/:id.                         *)
(*                                                                         *)
(* The file is a sequence of lines cut into chunks. A line is blank or     *)
(* not; the first line that is not blank is the header; every later one    *)
(* is a data row, whose mapped fields are all empty ("empty"), or all     *)
(* filled ("mapped"), or filled except the voter identifier ("noid"). The  *)
(* column mapping of the request is an object, or null                     *)
(* (JSON.parse of the field "null"), on which mapRowToSchema throws for    *)
(* every row.                                                              *)
(*                                                                         *)
(* The stream is a Node Readable: it delivers 'data' only while flowing,   *)
(* and it delivers one of 'end' and 'error' and nothing after it.  A       *)
(* paused stream emits no 'end' by itself, but file.resume() schedules a   *)
(* read for the next tick, and that read emits 'end' when the source has   *)
(* ended and nothing is buffered, also when the handler has paused the     *)
(* stream again in the meantime: 'end' can arrive while the data handler   *)
(* waits for a batch write if the handler has resumed the stream earlier   *)
(* in the same call, that is, from its second batch write of one chunk on. *)
(* 'error' is emitted when the stream is destroyed, paused or not.         *)
(***************************************************************************)
NoProgress == [processed |-> -1, total |-> -1, status |-> "none"]

NoJob == [ status |-> "none", totalRows |-> 0, processedRows |-> 0,
           successRows |-> 0, errorRows |-> 0, errors |-> <<>> ]

\* db.insert(importJobs).values({status: 'processing', ...}): the counters
\* and the error list take the defaults of the schema
NewJob == [NoJob EXCEPT !.status = "processing"]

NewLocals(mappingOk, importType) ==
    [ mappingOk |-> mappingOk, importType |-> importType,
      headers |-> FALSE, buffer |-> "",
      batch |-> <<>>, processedRows |-> 0, successRows |-> 0,
      errorRows |-> 0, errors |-> <<>> ]

\* no response has been sent (res.headersSent is false)
NoReply == [sent |-> FALSE, status |-> 0, jobId |-> "null"]

\* the variable jobId of the request handler: null until the insert of the
\* job row has returned
JobIdLocal == IF job.status = "none" THEN "null" ELSE "job"

\* busboy.on('finish'): busboy emits 'finish' when the request body has been
\* parsed and every file stream of it has emitted 'end', on the tick after
\* that 'end' and so before any store statement of the end handler has
\* returned
FinishReply == [sent |-> TRUE, status |-> 200, jobId |-> JobIdLocal]

\* busboy.on('error'): an error of the form destroys the file stream with
\* the error and is answered with 500 and no job id
ErrorReply == [sent |-> TRUE, status |-> 500, jobId |-> "null"]

IdleHandler == [pc |-> "idle", rest |-> <<>>, write |-> 0, values |-> NoJob,
                resumed |-> FALSE]

\* the status read: the job row read, the progress entry found, the
\* response, and (history) processedRows of the response before it
IdleRead == [pc |-> "idle", snap |-> NoJob, seen |-> NoProgress,
             resp |-> NoJob, last |-> -1]

UploadAtRest ==
    /\ job = NoJob
    /\ progress = NoProgress
    /\ up = NewLocals(TRUE, "voters")
    /\ stream = [flowing |-> FALSE, ended |-> FALSE, errored |-> FALSE]
    /\ dataH = IdleHandler
    /\ endH = IdleHandler
    /\ errH = IdleHandler
    /\ writes = <<>>
    /\ rd = IdleRead
    /\ reply = NoReply

\* mapRowToSchema: "throw" when the mapping is null, "null" when no mapped
\* field of the row is filled, else the mapped row
MapRowToSchema(kind, mappingOk) ==
    IF ~mappingOk THEN "throw"
    ELSE IF kind = "empty" THEN "null" ELSE "row"

\* the object mapRowToSchema returns for a row that has a mapped field filled:
\* a key is set only for a filled source column, so a row whose identifier
\* column is empty has no stateVoterId
MappedRow(kind, rowNo) ==
    [ row          |-> rowNo,
      stateVoterId |-> IF kind = "noid" THEN NULL ELSE "V1",
      lastName     |-> "Lee2",
      electionDate |-> "E1" ]

\* errors.push under the cap of the handler
MutPushError(errors, e) == Append(errors, e)

PushError(errors, e) ==
    IF Len(errors) < ErrorCap THEN Append(errors, e) ELSE errors

\* the body of the loop for one data row (lines 190-208), and the same code
\* in file.on('end') (lines 238-252), which pushes no descriptor
ProcessRow(u, kind, inEnd) ==
    LET res == MapRowToSchema(kind, u.mappingOk)
        rowNo == u.processedRows + 1
        u1 == CASE res = "row"   -> [u EXCEPT !.batch = Append(@, MappedRow(kind, rowNo))]
                [] res = "throw" ->
                     [u EXCEPT !.errorRows = @ + 1,
                               !.errors = IF inEnd THEN @
                                          ELSE PushError(@,
                                            [row |-> rowNo, kind |-> "row"])]
                [] OTHER         -> u
    IN [u1 EXCEPT !.processedRows = @ + 1]

\* the for loop of file.on('data') over the complete lines of a chunk, up to
\* its first batch write: the locals, the lines left, and whether the handler
\* is suspended in `await insert...Batch(batch)`
RECURSIVE RunLines(_, _)
RunLines(u, kinds) ==
    IF kinds = <<>>
    THEN [u |-> u, rest |-> <<>>, suspended |-> FALSE]
    ELSE LET kind == Head(kinds) IN
         IF kind = "blank" THEN RunLines(u, Tail(kinds))
         ELSE IF ~u.headers
              THEN RunLines([u EXCEPT !.headers = TRUE], Tail(kinds))
              ELSE LET u1 == ProcessRow(u, kind, FALSE) IN
                   IF Len(u1.batch) >= BATCH_SIZE
                   THEN [u |-> u1, rest |-> Tail(kinds), suspended |-> TRUE]
                   ELSE RunLines(u1, Tail(kinds))

\* a batch write submitted to the store: the rows of the array at the call
Submitted(by, rows) == [by |-> by, rows |-> rows, outcome |-> "pending"]

\* busboy.on('file'): the job row is inserted with status 'processing'
InsertJob(mappingOk, importType) ==
    /\ job.status = "none"
    /\ job' = NewJob
    /\ up' = NewLocals(mappingOk, importType)
    /\ UNCHANGED <<progress, stream, dataH, endH, errH, writes, rd>>
    /\ UNCHANGED <<reply, storeVars, listVars, filterVars, interVars, parseVars>>

\* after the insert: the progress entry is set and the handlers of the file
\* stream are registered, which starts the flow
RegisterHandlers ==
    /\ job.status = "processing"
    /\ progress = NoProgress
    /\ ~stream.flowing /\ ~stream.ended /\ ~stream.errored
    /\ dataH.pc = "idle" /\ endH.pc = "idle" /\ errH.pc = "idle"
    /\ writes = <<>> /\ up.processedRows = 0 /\ ~up.headers
    /\ progress' = [processed |-> 0, total |-> 0, status |-> "processing"]
    /\ stream' = [stream EXCEPT !.flowing = TRUE]
    /\ UNCHANGED <<job, up, dataH, endH, errH, writes, rd>>
    /\ UNCHANGED <<reply, storeVars, listVars, filterVars, interVars, parseVars>>

Registered == progress # NoProgress \/ stream.flowing \/ stream.ended
              \/ stream.errored \/ dataH.pc # "idle"

LineKinds(mappingOk) ==
    IF mappingOk THEN {"blank", "mapped", "noid", "empty"}
    ELSE {"blank", "mapped"}

\* a chunk whose rows fill the batch twice and leave a line over
LongChunk == <<"mapped", "mapped", "mapped", "mapped">>

Chunks(mappingOk) ==
    UNION { [1..n -> LineKinds(mappingOk)] : n \in 0..MaxChunkLines }
        \cup {LongChunk}

RowsIn(kinds) == Cardinality({ i \in DOMAIN kinds : kinds[i] # "blank" })

RowBound(mappingOk) == IF mappingOk THEN MaxRows ELSE MaxErrRows

\* req.organizationId of the upload request
UploadOrg == 1

\* two records of one batch carry the same identifier
SameIdTwice(batch) ==
    \E i, j \in DOMAIN batch :
        /\ i # j
        /\ batch[i].stateVoterId # NULL
        /\ batch[i].stateVoterId = batch[j].stateVoterId

\* insertVoterBatch when the statement is accepted: a record that conflicts
\* on (organizationId, stateVoterId) runs DO UPDATE SET first_name =
\* voters.first_name, last_name = voters.last_name, which assigns the stored
\* values to themselves; any other record is inserted.  A record without
\* identifier conflicts with nothing.
RECURSIVE InsertVoterBatch(_, _)
InsertVoterBatch(vs, batch) ==
    IF batch = <<>> THEN vs
    ELSE LET rec == Head(batch)
             conflict == /\ rec.stateVoterId # NULL
                         /\ \E id \in DOMAIN vs :
                                /\ vs[id].organizationId = UploadOrg
                                /\ vs[id].stateVoterId = rec.stateVoterId
         IN InsertVoterBatch(
                IF conflict THEN vs
                ELSE Append(vs, VoterRow(UploadOrg, rec.stateVoterId,
                                         rec.lastName)),
                Tail(batch))

\* insertElectionBatch over the records of a batch: the possible contents of
\* election_history afterwards (findFirst returns any matching voter)
RECURSIVE InsertElectionBatch(_, _)
InsertElectionBatch(els, batch) ==
    IF batch = <<>> THEN {els}
    ELSE LET rec == Head(batch)
             found == IF rec.stateVoterId = NULL THEN {}
                      ELSE { id \in VoterKeys :
                               /\ voters[id].organizationId = UploadOrg
                               /\ voters[id].stateVoterId = rec.stateVoterId }
         IN IF found = {} THEN InsertElectionBatch(els, Tail(batch))
            ELSE UNION { InsertElectionBatch(
                             Append(els, [ voterId |-> id,
                                           organizationId |-> UploadOrg,
                                           electionDate |-> rec.electionDate ]),
                             Tail(batch)) : id \in found }

\* the store after `await insert...Batch(batch)` settles.  The voter write is
\* one statement: it changes nothing when rejected, and it is rejected when
\* it would touch one row twice.  The election write is a loop of
\* statements: a rejection leaves the records before it written.
WriteBatch(batch, ok) ==
    IF up.importType = "voters"
    THEN /\ ok => ~SameIdTwice(batch)
         /\ voters' = IF ok THEN InsertVoterBatch(voters, batch) ELSE voters
         /\ elections' = elections
    ELSE /\ voters' = voters
         /\ elections' \in
                IF ok THEN InsertElectionBatch(elections, batch)
                ELSE UNION { InsertElectionBatch(elections,
                                                 SubSeq(batch, 1, k)) :
                             k \in 0..(Len(batch) - 1) }

\* the records write k covers: insertVoterBatch copies the array when it is
\* called; insertElectionBatch walks the array itself, so a write of the
\* data handler may also reach a record the end handler pushed meanwhile
Covered(k, by) ==
    IF up.importType = "elections" /\ by = "data"
    THEN {writes[k].rows, up.batch}
    ELSE {writes[k].rows}

BatchWritten(k, by, ok) ==
    \E batch \in Covered(k, by) : WriteBatch(batch, ok)

\* the state after the synchronous part of the data handler
AfterLines(res) ==
    /\ up' = res.u
    /\ IF res.suspended
       THEN /\ dataH' = [IdleHandler EXCEPT !.pc = "await", !.rest = res.rest,
                                            !.write = Len(writes) + 1]
            /\ writes' = Append(writes, Submitted("data", res.u.batch))
            /\ stream' = [stream EXCEPT !.flowing = FALSE]
       ELSE /\ dataH' = IdleHandler
            /\ writes' = writes
            /\ stream' = stream

\* file.on('data'): a chunk that completes the lines `kinds` and leaves
\* `tail` ("" or "text") as the incomplete last line
DataEvent(kinds, tail) ==
    /\ stream.flowing /\ ~stream.ended /\ ~stream.errored
    /\ dataH.pc = "idle"
    /\ up.buffer = "text" =>
          IF kinds = <<>> THEN tail = "text" ELSE kinds[1] # "blank"
    /\ up.processedRows + RowsIn(kinds) + (IF tail = "text" THEN 1 ELSE 0)
          <= RowBound(up.mappingOk)
    /\ AfterLines(RunLines([up EXCEPT !.buffer = tail], kinds))
    /\ UNCHANGED <<job, progress, endH, errH, rd>>
    /\ UNCHANGED <<reply, storeVars, listVars, filterVars, interVars, parseVars>>

\* the data handler after `await insert...Batch(batch)`: the batch is counted
\* as written or as errored, reset, the progress entry is set and the loop
\* goes on with the lines left of the chunk
DataWriteDone(ok) ==
    LET n  == Len(up.batch)
        u1 == IF ok
              THEN [up EXCEPT !.successRows = @ + n]
              ELSE [up EXCEPT !.errorRows = @ + n,
                              !.errors = PushError(@,
                                  [row |-> up.processedRows, kind |-> "batch"])]
        u2 == [u1 EXCEPT !.batch = <<>>]
    IN
    /\ dataH.pc = "await"
    /\ progress' = [processed |-> u2.processedRows,
                    total |-> u2.processedRows, status |-> "processing"]
    /\ LET res == RunLines(u2, dataH.rest)
           log == [writes EXCEPT ![dataH.write].outcome =
                                     IF ok THEN "ok" ELSE "failed"]
       IN /\ up' = res.u
          /\ IF res.suspended
             THEN /\ dataH' = [dataH EXCEPT !.rest = res.rest,
                                            !.write = Len(log) + 1,
                                            !.resumed = TRUE]
                  /\ writes' = Append(log, Submitted("data", res.u.batch))
                  /\ stream' = [stream EXCEPT !.flowing = FALSE]
             ELSE /\ dataH' = IdleHandler
                  /\ writes' = log
                  /\ stream' = IF stream.ended \/ stream.errored THEN stream
                               ELSE [stream EXCEPT !.flowing = TRUE]
    /\ UNCHANGED <<job, endH, errH, rd>>
    /\ BatchWritten(dataH.write, "data", ok)
    /\ UNCHANGED <<imp, hist, manual, dbFailures, csvFile>>
    /\ UNCHANGED <<reply, listVars, filterVars, interVars, parseVars>>

\* the values of db.update(importJobs).set({status: 'completed', ...})
CompletedValues(u) ==
    [ status |-> "completed", totalRows |-> u.processedRows,
      processedRows |-> u.processedRows, successRows |-> u.successRows,
      errorRows |-> u.errorRows, errors |-> u.errors ]

\* file.on('end'): the buffered last line is processed, then the final batch
\* is submitted, or, with an empty batch, the update of the job is issued
EndEvent(kind) ==
    LET u1 == IF up.buffer = "text" /\ up.headers
              THEN ProcessRow(up, kind, TRUE) ELSE up
    IN
    /\ Registered
    /\ ~stream.ended /\ ~stream.errored
    /\ dataH.pc = "await" => dataH.resumed
    /\ endH.pc = "idle"
    /\ kind \in LineKinds(up.mappingOk) \ {"blank"}
    /\ (up.buffer = "text" /\ up.headers) \/ kind = "mapped"
    /\ stream' = [stream EXCEPT !.ended = TRUE, !.flowing = FALSE]
    /\ up' = u1
    /\ IF Len(u1.batch) > 0
       THEN /\ endH' = [IdleHandler EXCEPT !.pc = "await",
                                           !.write = Len(writes) + 1]
            /\ writes' = Append(writes, Submitted("end", u1.batch))
       ELSE /\ endH' = [IdleHandler EXCEPT !.pc = "update",
                                           !.values = CompletedValues(u1)]
            /\ writes' = writes
    /\ UNCHANGED <<job, progress, dataH, errH, rd>>
    /\ reply' = FinishReply
    /\ UNCHANGED <<storeVars, listVars, filterVars, interVars, parseVars>>

\* the end handler after the final batch write
EndWriteDone(ok) ==
    LET n  == Len(up.batch)
        u1 == IF ok THEN [up EXCEPT !.successRows = @ + n]
                    ELSE [up EXCEPT !.errorRows = @ + n]
    IN
    /\ endH.pc = "await"
    /\ up' = u1
    /\ writes' = [writes EXCEPT ![endH.write].outcome =
                                    IF ok THEN "ok" ELSE "failed"]
    /\ endH' = [endH EXCEPT !.pc = "update", !.values = CompletedValues(u1)]
    /\ UNCHANGED <<job, progress, stream, dataH, errH, rd>>
    /\ BatchWritten(endH.write, "end", ok)
    /\ UNCHANGED <<imp, hist, manual, dbFailures, csvFile>>
    /\ UNCHANGED <<reply, listVars, filterVars, interVars, parseVars>>

\* the update of the job row issued by the end handler is executed
EndUpdate ==
    /\ endH.pc = "update"
    /\ job' = endH.values
    /\ endH' = [endH EXCEPT !.pc = "cleanup"]
    /\ UNCHANGED <<progress, up, stream, dataH, errH, writes, rd>>
    /\ UNCHANGED <<reply, storeVars, listVars, filterVars, interVars, parseVars>>

\* the update is rejected: the handler ends with an unhandled rejection
EndUpdateFails ==
    /\ endH.pc = "update"
    /\ endH' = [endH EXCEPT !.pc = "dead"]
    /\ UNCHANGED <<job, progress, up, stream, dataH, errH, writes, rd>>
    /\ UNCHANGED <<reply, storeVars, listVars, filterVars, interVars, parseVars>>

\* importProgress.delete(jobId) of the end handler
EndCleanup ==
    /\ endH.pc = "cleanup"
    /\ progress' = NoProgress
    /\ endH' = [endH EXCEPT !.pc = "done"]
    /\ UNCHANGED <<job, up, stream, dataH, errH, writes, rd>>
    /\ UNCHANGED <<reply, storeVars, listVars, filterVars, interVars, parseVars>>

\* the values of db.update(importJobs).set({status: 'failed', ...})
MutFailedValues(j) ==
    [j EXCEPT !.status = "pending",
              !.errors = <<[row |-> 0, kind |-> "stream"]>>]

FailedValues(j) ==
    [j EXCEPT !.status = "failed",
              !.errors = <<[row |-> 0, kind |-> "stream"]>>]

\* file.on('error'): the update of the job is issued
ErrorEvent ==
    /\ Registered
    /\ ~stream.ended /\ ~stream.errored
    /\ errH.pc = "idle"
    /\ stream' = [stream EXCEPT !.errored = TRUE, !.flowing = FALSE]
    /\ errH' = [IdleHandler EXCEPT !.pc = "update"]
    /\ UNCHANGED <<job, progress, up, dataH, endH, writes, rd>>
    /\ reply' = ErrorReply
    /\ UNCHANGED <<storeVars, listVars, filterVars, interVars, parseVars>>

ErrUpdate ==
    /\ errH.pc = "update"
    /\ job' = FailedValues(job)
    /\ errH' = [errH EXCEPT !.pc = "cleanup"]
    /\ UNCHANGED <<progress, up, stream, dataH, endH, writes, rd>>
    /\ UNCHANGED <<reply, storeVars, listVars, filterVars, interVars, parseVars>>

ErrUpdateFails ==
    /\ errH.pc = "update"
    /\ errH' = [errH EXCEPT !.pc = "dead"]
    /\ UNCHANGED <<job, progress, up, stream, dataH, endH, writes, rd>>
    /\ UNCHANGED <<reply, storeVars, listVars, filterVars, interVars, parseVars>>

ErrCleanup ==
    /\ errH.pc = "cleanup"
    /\ progress' = NoProgress
    /\ errH' = [errH EXCEPT !.pc = "done"]
    /\ UNCHANGED <<job, up, stream, dataH, endH, writes, rd>>
    /\ UNCHANGED <<reply, storeVars, listVars, filterVars, interVars, parseVars>>

\* GET /jobs/:id, the response for the job row read and the progress entry
\* found: the entry overrides processedRows and status of a processing job
MutStatusResponse(j, p) ==
    IF p # NoProgress
    THEN [j EXCEPT !.processedRows = p.processed, !.status = p.status]
    ELSE j

StatusResponse(j, p) ==
    IF p # NoProgress /\ j.status = "processing"
    THEN [j EXCEPT !.processedRows = p.processed, !.status = p.status]
    ELSE j

\* GET /jobs/:id: the job row is read
ReadJob ==
    /\ rd.pc \in {"idle", "sent"}
    /\ job.status # "none"
    /\ rd' = [IdleRead EXCEPT !.pc = "read", !.snap = job,
                               !.last = IF rd.pc = "sent"
                                        THEN rd.resp.processedRows
                                        ELSE rd.last]
    /\ UNCHANGED <<job, progress, up, stream, dataH, endH, errH, writes>>
    /\ UNCHANGED <<reply, storeVars, listVars, filterVars, interVars, parseVars>>

\* GET /jobs/:id: the progress entry is looked up and the response is sent
Respond ==
    /\ rd.pc = "read"
    /\ rd' = [rd EXCEPT !.pc = "sent", !.seen = progress,
                        !.resp = StatusResponse(rd.snap, progress)]
    /\ UNCHANGED <<job, progress, up, stream, dataH, endH, errH, writes>>
    /\ UNCHANGED <<reply, storeVars, listVars, filterVars, interVars, parseVars>>

(***************************************************************************)
(* Filter predicate: the WHERE clause of POST /lists/:id/populate and of   *)
(* GET /voters, evaluated on one row under SQL's three-valued logic ("T",  *)
(* "F", "U" for unknown); a row is selected when the clause is "T".        *)
(*                                                                         *)
(* A criteria object (ListFilterCriteria) is a function from the fields    *)
(* it carries to their values; a query string is a function from the       *)
(* parameters it carries to their text. Of the parameters of GET /voters   *)
(* those that name a criteria field are drawn; search, precinctCode,       *)
(* listId, paging and sorting are absent from the requests.                *)
(***************************************************************************)
ListFields == { "congressionalDistrict", "legislativeDistrict",
                "stateSenateDistrict", "county", "city", "zipCode" }

CriteriaFields == ListFields \cup {"supportLevel", "hasPhone", "hasEmail"}

\* the column a criteria field is compared with
Column(f) == IF f = "county" THEN "countyCode" ELSE f

\* no criteria: null or undefined
NoCriteria == [null |-> TRUE]

\* AND over the conditions pushed
And3(conds) == IF "F" \in conds THEN "F"
               ELSE IF "U" \in conds THEN "U" ELSE "T"

\* eq(voters.organizationId, req.organizationId), a NOT NULL column
OrgEq(row, org) == IF row.organizationId = org THEN "T" ELSE "F"

\* eq(column, value) on a text column
SqlEq(col, v) == IF col = NULL THEN "U" ELSE IF col = v THEN "T" ELSE "F"

\* eq(voters.supportLevel, n)
SqlEqInt(col, n) ==
    IF col = NoLevel THEN "U" ELSE IF col = n THEN "T" ELSE "F"

\* inArray(column, values) on a text column
InArray(col, list) ==
    IF col = NULL THEN "U"
    ELSE IF \E i \in DOMAIN list : list[i] = col THEN "T" ELSE "F"

\* inArray(voters.supportLevel, values)
InArrayInt(col, list) ==
    IF col = NoLevel THEN "U"
    ELSE IF \E i \in DOMAIN list : list[i] = col THEN "T" ELSE "F"

\* sql`${column} IS NOT NULL AND ${column} != ''`
MutHasValue(col) == IF col = NULL THEN "F" ELSE "T"

HasValue(col) ==
    And3({ IF col = NULL THEN "F" ELSE "T",
           IF col = NULL THEN "U" ELSE IF col # "" THEN "T" ELSE "F" })

\* criteria.f?.length
Populated(criteria, f) == f \in DOMAIN criteria /\ Len(criteria[f]) > 0

\* criteria.hasPhone, criteria.hasEmail
Flag(criteria, f) == f \in DOMAIN criteria /\ criteria[f]

\* the conditions POST /:id/populate pushes for a criteria object, as
\* evaluated on a row
PopulateConditions(criteria, org, row) ==
    {OrgEq(row, org)}
    \cup { InArray(row[Column(f)], criteria[f]) :
              f \in { g \in ListFields : Populated(criteria, g) } }
    \cup ( IF Populated(criteria, "supportLevel")
           THEN {InArrayInt(row.supportLevel, criteria["supportLevel"])}
           ELSE {} )
    \cup ( IF Flag(criteria, "hasPhone") THEN {HasValue(row.phone)} ELSE {} )
    \cup ( IF Flag(criteria, "hasEmail") THEN {HasValue(row.email)} ELSE {} )

\* WHERE and(...conditions) of the populator
PopulateSelects(criteria, org, row) ==
    And3(PopulateConditions(criteria, org, row)) = "T"

\* a query parameter that is given: a non-empty string
Given(query, f) == f \in DOMAIN query /\ query[f] # ""

\* lower case, on the letters of the model
Lower(s) == IF s = "A" THEN "a" ELSE s

\* ilike(voters.city, pattern), for a pattern that is "%" or has no wildcard
ILike(col, pattern) ==
    IF col = NULL THEN "U"
    ELSE IF pattern = "%" \/ Lower(col) = Lower(pattern) THEN "T" ELSE "F"

\* parseInt(text, 10) of the texts of the model: leading digits count
ParseInt(s) == IF s \in {"3", "3x"} THEN 3 ELSE 4

\* the conditions GET /voters pushes for a query string
SearchConditions(query, org, row) ==
    {OrgEq(row, org)}
    \cup { SqlEq(row[Column(f)], query[f]) :
              f \in { g \in ListFields \ {"city"} : Given(query, g) } }
    \cup ( IF Given(query, "city")
           THEN {ILike(row.city, query["city"])} ELSE {} )
    \cup ( IF Given(query, "supportLevel")
           THEN {SqlEqInt(row.supportLevel, ParseInt(query["supportLevel"]))}
           ELSE {} )
    \cup ( IF "hasPhone" \in DOMAIN query /\ query["hasPhone"] = "true"
           THEN {HasValue(row.phone)} ELSE {} )
    \cup ( IF "hasEmail" \in DOMAIN query /\ query["hasEmail"] = "true"
           THEN {HasValue(row.email)} ELSE {} )

\* WHERE and(...conditions) of the voter search
SearchSelects(query, org, row) ==
    And3(SearchConditions(query, org, row)) = "T"

\* the values a criteria object carries in a field
CriteriaValues(f) ==
    IF f \in {"hasPhone", "hasEmail"} THEN BOOLEAN
    ELSE IF f = "supportLevel" THEN {<<>>, <<3>>, <<4, 3>>}
    ELSE {<<>>, <<"a">>, <<"b", "a">>}

\* the texts a query string carries in a parameter
QueryValues(f) ==
    IF f \in {"hasPhone", "hasEmail"} THEN {"true", "false"}
    ELSE IF f = "supportLevel" THEN {"", "3", "3x", "4"}
    ELSE IF f = "city" THEN {"", "a", "A", "%"}
    ELSE {"", "a", "b"}

\* the values of field f in an object of a kind
Values(kind, f) ==
    IF kind = "criteria" THEN CriteriaValues(f) ELSE QueryValues(f)

\* the objects of a kind that carry exactly the fields S
RECURSIVE Objects(_, _)
Objects(S, kind) ==
    IF S = {} THEN {<<>>}
    ELSE LET f == CHOOSE g \in S : TRUE
         IN { (f :> v) @@ o : v \in Values(kind, f),
                              o \in Objects(S \ {f}, kind) }

FieldSets == { S \in SUBSET CriteriaFields : Cardinality(S) <= MaxPopulated }

Criteria == UNION { Objects(S, "criteria") : S \in FieldSets }

Queries == UNION { Objects(S, "query") : S \in FieldSets }

\* rows of table voters that differ from a row of NULLs in at most
\* MaxRowFields columns; all carry the same stateVoterId
TextColumns == { Column(f) : f \in ListFields }

RowEdits(row) ==
    { [row EXCEPT ![c] = v] : c \in TextColumns, v \in {"a", "A"} }
    \cup { [row EXCEPT !.supportLevel = n] : n \in {3, 4} }
    \cup { [row EXCEPT !.phone = v] : v \in {"", "p"} }
    \cup { [row EXCEPT !.email = v] : v \in {"", "e"} }

RECURSIVE RowsWithin(_, _)
RowsWithin(n, org) ==
    IF n = 0 THEN {VoterRow(org, "V1", "Lee")}
    ELSE LET less == RowsWithin(n - 1, org)
         IN less \cup UNION { RowEdits(row) : row \in less }

FilterRows(org) == RowsWithin(MaxRowFields, org)

NoFilter == [ pc |-> "none", input |-> NoCriteria, org |-> 0,
              row |-> VoterRow(0, NULL, NULL), selected |-> FALSE ]

FilterAtRest == flt = NoFilter

\* POST /:id/populate evaluates its WHERE clause on the row
PopulateFilter ==
    /\ flt.pc = "populate"
    /\ flt' = [flt EXCEPT !.pc = "populated",
                 !.selected = PopulateSelects(flt.input, flt.org, flt.row)]
    /\ UNCHANGED <<storeVars, uploadVars, listVars, interVars, parseVars>>

\* GET /voters evaluates its WHERE clause on the row
SearchFilter ==
    /\ flt.pc = "search"
    /\ flt' = [flt EXCEPT !.pc = "searched",
                 !.selected = SearchSelects(flt.input, flt.org, flt.row)]
    /\ UNCHANGED <<storeVars, uploadVars, listVars, interVars, parseVars>>

(***************************************************************************)
(* Voter lists: POST /lists/:id/voters, DELETE /lists/:id/voters and       *)
(* POST /lists/:id/populate. A populate request is a sequence of           *)
(* statements, each awaited, and requests interleave between statements.   *)
(***************************************************************************)
ListIds == {1, 2}

Reqs == {1, 2}

\* the criteria a populate request may carry (NoCriteria: none in the body)
RequestCriteria ==
    { NoCriteria, <<>>, [city |-> <<"a">>], [hasPhone |-> TRUE] }

\* the voters table the list requests run against
ListVoters ==
    << [VoterRow(1, "V1", "Lee") EXCEPT !.city = "a", !.phone = "p"],
       [VoterRow(1, "V2", "Lee") EXCEPT !.city = "b", !.phone = ""],
       [VoterRow(1, NULL, "Ng")  EXCEPT !.city = "a"],
       [VoterRow(2, "V1", "Lee") EXCEPT !.city = "a", !.phone = "p"] >>

IdlePopulate ==
    [ pc |-> "idle", org |-> 0, listId |-> 0, supplied |-> NoCriteria,
      stored |-> NoCriteria, criteria |-> NoCriteria, matching |-> <<>>,
      i |-> 0, added |-> 0, status |-> 0, count |-> 0, alone |-> FALSE ]

NoResponse == [op |-> "none", org |-> 0, listId |-> 0, status |-> 0]

ListsAtRest ==
    /\ lists = [l \in ListIds |-> [organizationId |-> l,
                                   filterCriteria |-> NoCriteria]]
    /\ members = {}
    /\ pop = [p \in Reqs |-> IdlePopulate]
    /\ listOps = 0
    /\ lastResp = NoResponse

\* the voter ids of the members of a list
MembersOf(l) == { m.voterId : m \in { x \in members : x.listId = l } }

\* db.query.voterLists.findFirst: the list with this id in this organization
FindList(l, org) ==
    { x \in ListIds : x = l /\ lists[x].organizationId = org }

\* filterCriteria || list.filterCriteria
MutEffectiveCriteria(supplied, stored) ==
    IF stored # NoCriteria THEN stored ELSE supplied

MutDefaultCriteria(supplied, stored) ==
    IF supplied # NoCriteria THEN supplied
    ELSE IF stored # NoCriteria THEN stored ELSE <<>>

EffectiveCriteria(supplied, stored) ==
    IF supplied # NoCriteria THEN supplied ELSE stored

\* a write to the members of list l by another request
Disturb(l, by) ==
    [p \in Reqs |-> IF p # by /\ pop[p].listId = l
                    THEN [pop[p] EXCEPT !.alone = FALSE] ELSE pop[p]]

\* the ids in ascending order
RECURSIVE Ascending(_)
Ascending(S) ==
    IF S = {} THEN <<>>
    ELSE LET m == CHOOSE x \in S : \A y \in S : x <= y
         IN <<m>> \o Ascending(S \ {m})

\* POST /:id/voters: the list is looked up in the organization of the
\* request, the members are inserted, duplicates ignored
AddVoters(org, l, voterIds) ==
    /\ listOps < MaxListOps
    /\ listOps' = listOps + 1
    /\ IF FindList(l, org) = {}
       THEN /\ lastResp' = [op |-> "add", org |-> org, listId |-> l,
                            status |-> 404]
            /\ UNCHANGED <<members, pop>>
       ELSE /\ members' = members \cup
                   { [listId |-> l, voterId |-> v] : v \in voterIds }
            /\ pop' = Disturb(l, 0)
            /\ lastResp' = [op |-> "add", org |-> org, listId |-> l,
                            status |-> 200]
    /\ UNCHANGED <<lists, storeVars, uploadVars, filterVars, interVars, parseVars>>

\* DELETE /:id/voters: the members are deleted by list id and voter id
RemoveVoters(org, l, voterIds) ==
    /\ listOps < MaxListOps
    /\ listOps' = listOps + 1
    /\ members' = { m \in members : ~(m.listId = l /\ m.voterId \in voterIds) }
    /\ pop' = Disturb(l, 0)
    /\ lastResp' = [op |-> "remove", org |-> org, listId |-> l,
                    status |-> 200]
    /\ UNCHANGED <<lists, storeVars, uploadVars, filterVars, interVars, parseVars>>

\* POST /:id/populate up to its first statement after the lookup: 404
\* without the list, 400 without criteria
StartPopulate(p, org, l, supplied) ==
    /\ pop[p].pc \in {"idle", "done"}
    /\ listOps < MaxListOps
    /\ listOps' = listOps + 1
    /\ LET req == [IdlePopulate EXCEPT !.org = org, !.listId = l,
                                       !.supplied = supplied]
       IN IF FindList(l, org) = {}
          THEN pop' = [pop EXCEPT ![p] =
                          [req EXCEPT !.pc = "done", !.status = 404]]
          ELSE LET stored == lists[l].filterCriteria
                   criteria == EffectiveCriteria(supplied, stored)
               IN IF criteria = NoCriteria
                  THEN pop' = [pop EXCEPT ![p] =
                          [req EXCEPT !.pc = "done", !.status = 400,
                                      !.stored = stored]]
                  ELSE pop' = [pop EXCEPT ![p] =
                          [req EXCEPT !.pc = "select", !.stored = stored,
                                      !.criteria = criteria]]
    /\ UNCHANGED <<lists, members, lastResp, storeVars, uploadVars,
                   filterVars, interVars, parseVars>>

\* db.select({id}).from(voters).where(and(...conditions))
SelectMatching(p) ==
    /\ pop[p].pc = "select"
    /\ pop' = [pop EXCEPT ![p].pc = "clear",
                 ![p].matching = Ascending(
                     { id \in VoterKeys :
                         PopulateSelects(pop[p].criteria, pop[p].org,
                                         voters[id]) })]
    /\ UNCHANGED <<lists, members, listOps, lastResp, storeVars, uploadVars,
                   filterVars, interVars, parseVars>>

\* db.delete(voterListMembers).where(eq(listId, id))
ClearMembers(p) ==
    /\ pop[p].pc = "clear"
    /\ members' = { m \in members : m.listId # pop[p].listId }
    /\ pop' = [Disturb(pop[p].listId, p) EXCEPT
                 ![p].pc = IF Len(pop[p].matching) > 0 THEN "insert"
                           ELSE "update",
                 ![p].alone = TRUE]
    /\ UNCHANGED <<lists, listOps, lastResp, storeVars, uploadVars,
                   filterVars, interVars, parseVars>>

\* one turn of the loop: a batch of batchSize ids is inserted; a member
\* that exists makes the statement fail on list_voter_idx, and the handler
\* answers 500
InsertBatch(p) ==
    LET r     == pop[p]
        last  == IF r.i + batchSize < Len(r.matching)
                 THEN r.i + batchSize ELSE Len(r.matching)
        batch == { [listId |-> r.listId, voterId |-> r.matching[k]] :
                      k \in (r.i + 1)..last }
    IN
    /\ r.pc = "insert"
    /\ IF batch \cap members # {}
       THEN /\ pop' = [pop EXCEPT ![p].pc = "done", ![p].status = 500]
            /\ members' = members
       ELSE /\ members' = members \cup batch
            /\ pop' = [Disturb(r.listId, p) EXCEPT
                         ![p].i = last,
                         ![p].added = r.added + (last - r.i),
                         ![p].pc = IF last < Len(r.matching) THEN "insert"
                                   ELSE "update"]
    /\ UNCHANGED <<lists, listOps, lastResp, storeVars, uploadVars,
                   filterVars, interVars, parseVars>>

\* db.update(voterLists).set({filterCriteria: criteria}), then the response
\* with count: added
UpdateCriteria(p) ==
    /\ pop[p].pc = "update"
    /\ lists' = [lists EXCEPT ![pop[p].listId].filterCriteria =
                                  pop[p].criteria]
    /\ pop' = [pop EXCEPT ![p].pc = "done", ![p].status = 200,
                          ![p].count = pop[p].added]
    /\ UNCHANGED <<members, listOps, lastResp, storeVars, uploadVars,
                   filterVars, interVars, parseVars>>

\* a statement of the populate is rejected by the database: the catch of
\* the handler answers 500
PopulateError(p) ==
    /\ pop[p].pc \in {"select", "clear", "insert", "update"}
    /\ dbFailures < MaxDbFailures
    /\ dbFailures' = dbFailures + 1
    /\ pop' = [pop EXCEPT ![p].pc = "done", ![p].status = 500]
    /\ UNCHANGED <<lists, members, listOps, lastResp, voters, elections, imp,
                   hist, manual, csvFile, uploadVars, filterVars, interVars, parseVars>>

(***************************************************************************)
(* Interactions: POST /interactions. The handler looks the voter up in     *)
(* the organization of the request, inserts the interaction and, when the  *)
(* body carries a support level, updates the voter; each statement is      *)
(* awaited and requests interleave between statements.                     *)
(***************************************************************************)
IReqs == {1, 2}

\* the support levels a body carries (NoLevel: undefined or null)
CarriedLevels == {NoLevel, 2, 4}

IdleInteraction ==
    [ pc |-> "idle", org |-> 0, voterId |-> 0, supportLevel |-> NoLevel,
      status |-> 0 ]

InteractionsAtRest ==
    /\ inter = <<>>
    /\ ireq = [r \in IReqs |-> IdleInteraction]
    /\ interOps = 0

\* db.query.voters.findFirst: the voter with this id in this organization
MutFindVoter(id, org) == { x \in VoterKeys : x = id }

FindVoter(id, org) ==
    { x \in VoterKeys : x = id /\ voters[x].organizationId = org }

\* the handler up to its first write: 400 without a voterId, 404 when the
\* voter is not one of the organization
StartInteraction(r, org, voterId, level) ==
    /\ ireq[r].pc \in {"idle", "done"}
    /\ interOps < MaxInteractions
    /\ interOps' = interOps + 1
    /\ LET req == [IdleInteraction EXCEPT !.org = org, !.voterId = voterId,
                                          !.supportLevel = level]
       IN ireq' = [ireq EXCEPT ![r] =
              IF voterId = 0
              THEN [req EXCEPT !.pc = "done", !.status = 400]
              ELSE IF FindVoter(voterId, org) = {}
              THEN [req EXCEPT !.pc = "done", !.status = 404]
              ELSE [req EXCEPT !.pc = "insert"]]
    /\ UNCHANGED <<inter, storeVars, uploadVars, listVars, filterVars,
                   parseVars>>

\* db.insert(interactions); without a support level the response follows
InsertInteraction(r) ==
    /\ ireq[r].pc = "insert"
    /\ inter' = Append(inter, [ voterId |-> ireq[r].voterId,
                                organizationId |-> ireq[r].org,
                                supportLevel |-> ireq[r].supportLevel ])
    /\ ireq' = [ireq EXCEPT ![r] =
           IF ireq[r].supportLevel # NoLevel
           THEN [@ EXCEPT !.pc = "update"]
           ELSE [@ EXCEPT !.pc = "done", !.status = 200]]
    /\ UNCHANGED <<interOps, storeVars, uploadVars, listVars, filterVars,
                   parseVars>>

\* db.update(voters).set({supportLevel}).where(eq(voters.id, voterId)),
\* then the response
UpdateSupportLevel(r) ==
    /\ ireq[r].pc = "update"
    /\ voters' = [ id \in VoterKeys |->
                     IF id = ireq[r].voterId
                     THEN [voters[id] EXCEPT
                             !.supportLevel = ireq[r].supportLevel]
                     ELSE voters[id] ]
    /\ ireq' = [ireq EXCEPT ![r].pc = "done", ![r].status = 200]
    /\ UNCHANGED <<inter, interOps, elections, imp, hist, manual, dbFailures,
                   csvFile, uploadVars, listVars, filterVars, parseVars>>

\* a statement is rejected by the database: the catch answers 500
InteractionError(r) ==
    /\ ireq[r].pc \in {"insert", "update"}
    /\ dbFailures < MaxDbFailures
    /\ dbFailures' = dbFailures + 1
    /\ ireq' = [ireq EXCEPT ![r].pc = "done", ![r].status = 500]
    /\ UNCHANGED <<inter, interOps, voters, elections, imp, hist, manual,
                   csvFile, uploadVars, listVars, filterVars, parseVars>>

(***************************************************************************)
(* SpecUpload.                                                             *)
(***************************************************************************)
InitUpload ==
    /\ voters \in {<<>>, <<VoterRow(UploadOrg, "V1", "Lee")>>}
    /\ elections = <<>>
    /\ imp = [r \in Runs |-> IdleRun]
    /\ hist = [r \in Runs |-> NoHist]
    /\ manual = <<>>
    /\ dbFailures = 0
    /\ csvFile = <<>>
    /\ UploadAtRest
    /\ ListsAtRest
    /\ FilterAtRest
    /\ InteractionsAtRest
    /\ ParserAtRest

\* the steps of the handlers of the file stream
StreamSteps ==
    \/ RegisterHandlers
    \/ \E kinds \in Chunks(up.mappingOk), tail \in {"", "text"} :
           DataEvent(kinds, tail)
    \/ \E ok \in BOOLEAN : DataWriteDone(ok)
    \/ \E kind \in {"mapped", "noid", "empty"} : EndEvent(kind)
    \/ \E ok \in BOOLEAN : EndWriteDone(ok)
    \/ EndUpdate
    \/ EndUpdateFails
    \/ EndCleanup
    \/ ErrorEvent
    \/ ErrUpdate
    \/ ErrUpdateFails
    \/ ErrCleanup

NextUpload ==
    \/ \E m \in BOOLEAN, t \in {"voters", "elections"} : InsertJob(m, t)
    \/ StreamSteps

SpecUpload == InitUpload /\ [][NextUpload]_vars

\* an upload of voters into an empty store, and status reads of its job
InitStatus ==
    /\ InitUpload
    /\ voters = <<>>

NextStatus ==
    \/ \E m \in BOOLEAN : InsertJob(m, "voters")
    \/ StreamSteps
    \/ ReadJob
    \/ Respond

SpecStatus == InitStatus /\ [][NextStatus]_vars

\* every statement a handler awaits settles, accepted or rejected, and the
\* handler then runs on; a stream that has not ended may stay open
UploadFairness ==
    /\ WF_vars(\E ok \in BOOLEAN : DataWriteDone(ok))
    /\ WF_vars(\E ok \in BOOLEAN : EndWriteDone(ok))
    /\ WF_vars(EndUpdate \/ EndUpdateFails)
    /\ WF_vars(EndCleanup)
    /\ WF_vars(ErrUpdate \/ ErrUpdateFails)
    /\ WF_vars(ErrCleanup)

SpecUploadFair == SpecUpload /\ UploadFairness

(***************************************************************************)
(* SpecLists.                                                              *)
(***************************************************************************)
InitLists ==
    /\ voters = ListVoters
    /\ elections = <<>>
    /\ imp = [r \in Runs |-> IdleRun]
    /\ hist = [r \in Runs |-> NoHist]
    /\ manual = <<>>
    /\ dbFailures = 0
    /\ csvFile = <<>>
    /\ UploadAtRest
    /\ ListsAtRest
    /\ FilterAtRest
    /\ InteractionsAtRest
    /\ ParserAtRest

NextLists ==
    \/ \E org \in Orgs, l \in ListIds, v \in VoterKeys : AddVoters(org, l, {v})
    \/ \E org \in Orgs, l \in ListIds, v \in VoterKeys :
           RemoveVoters(org, l, {v})
    \/ \E p \in Reqs, org \in Orgs, l \in ListIds, c \in RequestCriteria :
           StartPopulate(p, org, l, c)
    \/ \E p \in Reqs : SelectMatching(p)
    \/ \E p \in Reqs : ClearMembers(p)
    \/ \E p \in Reqs : InsertBatch(p)
    \/ \E p \in Reqs : UpdateCriteria(p)
    \/ \E p \in Reqs : PopulateError(p)

SpecLists == InitLists /\ [][NextLists]_vars

(***************************************************************************)
(* SpecFilter: the two WHERE clauses on every tenant, input and row of     *)
(* the bounds.                                                             *)
(***************************************************************************)
InitFilter ==
    /\ voters = <<>>
    /\ elections = <<>>
    /\ imp = [r \in Runs |-> IdleRun]
    /\ hist = [r \in Runs |-> NoHist]
    /\ manual = <<>>
    /\ dbFailures = 0
    /\ csvFile = <<>>
    /\ UploadAtRest
    /\ ListsAtRest
    /\ InteractionsAtRest
    /\ ParserAtRest
    /\ \E org \in Orgs, owner \in Orgs :
         \E row \in FilterRows(owner) :
            \/ \E c \in Criteria :
                  flt = [pc |-> "populate", input |-> c, org |-> org,
                         row |-> row, selected |-> FALSE]
            \/ \E q \in Queries :
                  flt = [pc |-> "search", input |-> q, org |-> org,
                         row |-> row, selected |-> FALSE]

NextFilter ==
    \/ PopulateFilter
    \/ SearchFilter

SpecFilter == InitFilter /\ [][NextFilter]_vars

(***************************************************************************)
(* SpecInteractions.                                                       *)
(***************************************************************************)
InitInteractions ==
    /\ voters = ListVoters
    /\ elections = <<>>
    /\ imp = [r \in Runs |-> IdleRun]
    /\ hist = [r \in Runs |-> NoHist]
    /\ manual = <<>>
    /\ dbFailures = 0
    /\ csvFile = <<>>
    /\ UploadAtRest
    /\ ListsAtRest
    /\ FilterAtRest
    /\ InteractionsAtRest
    /\ ParserAtRest

NextInteractions ==
    \/ \E r \in IReqs, org \in Orgs, v \in 0..(Len(voters) + 1),
          level \in CarriedLevels : StartInteraction(r, org, v, level)
    \/ \E r \in IReqs : InsertInteraction(r)
    \/ \E r \in IReqs : UpdateSupportLevel(r)
    \/ \E r \in IReqs : InteractionError(r)

SpecInteractions == InitInteractions /\ [][NextInteractions]_vars

(***************************************************************************)
(* SpecImport.                                                             *)
(***************************************************************************)
\* the header columns the column mapping of the request names: the first is
\* mapped to stateVoterId, the second to lastName
MappedColumns == {1, 2}

\* what the data handler makes of one line after the header: the line is
\* parsed, headers.reduce gives every header the value at its index or '',
\* and mapRowToSchema copies the mapped columns that are filled
LineKind(line) ==
    IF Trim(line) = <<>> THEN "blank"
    ELSE LET values == ParseCSVLineUpload(line)
             filled == { i \in MappedColumns :
                           i <= Len(values) /\ values[i] # <<>> }
         IN IF filled = {} THEN "empty"
            ELSE IF 1 \in filled THEN "mapped" ELSE "noid"

\* the body of the data handler's loop for the line: `continue` on a blank
\* line, else batch.push ("row"), nothing ("null"), or the catch ("throw")
HandleLine(mappingOk) ==
    /\ prs.row = "none"
    /\ prs' = [prs EXCEPT !.row =
                  IF LineKind(prs.line) = "blank" THEN "blank"
                  ELSE MapRowToSchema(LineKind(prs.line), mappingOk)]
    /\ UNCHANGED <<storeVars, uploadVars, listVars, filterVars, interVars>>

InitParse ==
    /\ voters = <<>>
    /\ elections = <<>>
    /\ imp = [r \in Runs |-> IdleRun]
    /\ hist = [r \in Runs |-> NoHist]
    /\ manual = <<>>
    /\ dbFailures = 0
    /\ csvFile = <<>>
    /\ UploadAtRest
    /\ ListsAtRest
    /\ FilterAtRest
    /\ InteractionsAtRest
    /\ \E l \in Lines :
           prs = [line |-> l, upload |-> NoFields, script |-> NoFields,
                  row |-> "none"]

NextParse ==
    \/ ParseUpload
    \/ ParseScript
    \/ \E mappingOk \in BOOLEAN : HandleLine(mappingOk)

SpecParse == InitParse /\ [][NextParse]_vars

InitImport ==
    /\ voters = <<>>
    /\ elections = <<>>
    /\ imp = [r \in Runs |-> IdleRun]
    /\ hist = [r \in Runs |-> NoHist]
    /\ manual = <<>>
    /\ dbFailures = 0
    /\ csvFile \in Files
    /\ UploadAtRest
    /\ ListsAtRest
    /\ FilterAtRest
    /\ InteractionsAtRest
    /\ ParserAtRest

NextImport ==
    \/ \E r \in Runs : StartRun(r)
    \/ \E r \in Runs : ReadLine(r)
    \/ \E r \in Runs : EndOfFile(r)
    \/ \E r \in Runs : SelectExisting(r)
    \/ \E r \in Runs : WriteVoter(r)
    \/ \E r \in Runs : SelectParent(r)
    \/ \E r \in Runs : InsertElection(r)
    \/ \E r \in Runs : BatchError(r)
    \/ \E r \in Runs : ElectionError(r)
    \/ \E r \in Runs : FinishRun(r)
    \/ \E org \in Orgs, svid \in ManualIds : CreateVoter(org, svid, "Ng")

SpecImport == InitImport /\ [][NextImport]_vars

(***************************************************************************)
(* Claims about the voter store and the import script (SpecImport).        *)
(***************************************************************************)
\* an external identifier that is present
Present(svid) == svid # "" /\ svid # NULL

\* C1: no two voter rows of the same tenant carry the same non-empty
\* external identifier (stateVoterId), whatever imports and manual creations
\* have run.
C1_UniqueExternalId ==
    \A i, j \in VoterKeys :
        ( /\ i # j
          /\ voters[i].organizationId = voters[j].organizationId
          /\ Present(voters[i].stateVoterId) )
        => voters[i].stateVoterId # voters[j].stateVoterId

\* C2: an import run for a tenant never updates or re-assigns a voter row
\* of another tenant: every row that belongs to another tenant is the same,
\* field for field, after each step.
C2_ForeignRowsUntouched ==
    [][ \A id \in VoterKeys :
            voters[id].organizationId # ScriptOrg
            => /\ id \in DOMAIN voters'
               /\ voters'[id] = voters[id] ]_vars

\* the identifiers of the file are present and pairwise distinct
CleanFile ==
    /\ \A i \in 1..Len(csvFile) : csvFile[i].VoterId # ""
    /\ \A i, j \in 1..Len(csvFile) :
           i # j => csvFile[i].VoterId # csvFile[j].VoterId

\* run r ran alone, with no statement rejected and no manual creation in
\* the tenant
Undisturbed(r) ==
    /\ imp[r].pc = "done"
    /\ ~hist[r].overlapped
    /\ hist[r].failures = 0
    /\ \A k \in 1..Len(manual) : manual[k] # ScriptOrg

\* C3: importing a file of N rows with non-empty identifiers into a tenant
\* that holds none of them reports imported = N and updated = 0; importing
\* it again reports imported = 0 and updated = N and leaves the tenant's row
\* count as it was after the first run. (Stated for the most favourable
\* case: distinct identifiers, no rejected statement, no concurrent run, no
\* manual creation in the tenant.)
C3_IdempotentReimport ==
    \A r1, r2 \in Runs :
        ( /\ CleanFile
          /\ Undisturbed(r1)
          /\ hist[r1].doneBefore = {}
          /\ ~hist[r1].heldAtStart )
        => /\ imp[r1].stats.imported = Len(csvFile)
           /\ imp[r1].stats.updated = 0
           /\ ( Undisturbed(r2) /\ r1 \in hist[r2].doneBefore )
              => /\ imp[r2].stats.imported = 0
                 /\ imp[r2].stats.updated = Len(csvFile)
                 /\ hist[r2].rowsAtEnd = hist[r1].rowsAtEnd

(***************************************************************************)
(* Claims about the populator and the filter predicate (SpecLists,         *)
(* SpecFilter).                                                            *)
(***************************************************************************)
Listed(list) == { list[i] : i \in DOMAIN list }

\* a field that is populated: a list with a value in it, a flag that is set
Constrains(criteria, f) ==
    /\ f \in DOMAIN criteria
    /\ IF f \in {"hasPhone", "hasEmail"} THEN criteria[f] = TRUE
       ELSE criteria[f] # <<>>

\* the row satisfies a populated field
Satisfies(criteria, f, row) ==
    IF f = "hasPhone" THEN row.phone # NULL /\ row.phone # ""
    ELSE IF f = "hasEmail" THEN row.email # NULL /\ row.email # ""
    ELSE IF f = "supportLevel" THEN row.supportLevel \in Listed(criteria[f])
    ELSE row[Column(f)] \in Listed(criteria[f])

\* the row is of the tenant and satisfies every populated field
Matches(criteria, org, row) ==
    /\ row.organizationId = org
    /\ \A f \in CriteriaFields :
          Constrains(criteria, f) => Satisfies(criteria, f, row)

MatchSet(criteria, org) ==
    { id \in VoterKeys : Matches(criteria, org, voters[id]) }

\* the criteria in effect for a request: those supplied, else those stored
\* on the list when the request found it
InEffect(r) == IF r.supplied # NoCriteria THEN r.supplied ELSE r.stored

\* the populate request has answered 200 and no other request has written
\* members of its list since it cleared them
ReturnedAlone(r) == r.pc = "done" /\ r.status = 200 /\ r.alone

\* C4: when a populate of a list has returned successfully, the members of
\* the list are exactly the voters that match the criteria in effect
\* (supplied, else stored) and the count returned is their number; nothing
\* is left of an earlier populate with other criteria or of manual adds.
\* (Stated for a populate whose writes no other request interleaves with.)
C4_PopulateReplaces ==
    \A p \in Reqs :
        ReturnedAlone(pop[p])
        => /\ MembersOf(pop[p].listId)
                = MatchSet(InEffect(pop[p]), pop[p].org)
           /\ pop[p].count = Cardinality(MembersOf(pop[p].listId))

\* a populate has returned on a list where it found the criteria of an
\* earlier populate stored, which had filled the list with voters that the
\* criteria of the later one do not match
C4_Witness ==
    \E p, q \in Reqs :
        /\ p # q
        /\ ReturnedAlone(pop[p])
        /\ pop[q].pc = "done" /\ pop[q].status = 200 /\ ~pop[q].alone
        /\ pop[q].listId = pop[p].listId
        /\ pop[p].stored = pop[q].criteria
        /\ pop[p].supplied \notin {NoCriteria, pop[q].criteria}
        /\ pop[p].count > 0
        /\ MatchSet(InEffect(pop[q]), pop[q].org)
              \ MatchSet(InEffect(pop[p]), pop[p].org) # {}

\* C5: the predicate the populator builds from a criteria object for a
\* tenant selects a row if and only if the row is of that tenant and
\* satisfies every populated field (a list field: the value of the row is
\* listed; hasPhone, hasEmail: the phone, the email is neither null nor
\* empty); an absent or empty field constrains nothing. Neither that
\* predicate nor the one of the voter search selects a row of another
\* tenant, whose external identifier is the same.
C5_FilterPredicate ==
    /\ flt.pc = "populated"
       => ( flt.selected <=> Matches(flt.input, flt.org, flt.row) )
    /\ ( flt.pc \in {"populated", "searched"} /\ flt.selected )
       => flt.row.organizationId = flt.org

\* a row of another tenant that satisfies both populated fields of the
\* criteria and is not selected
C5_Witness ==
    /\ flt.pc = "populated"
    /\ ~flt.selected
    /\ flt.row.organizationId # flt.org
    /\ Cardinality({ f \in CriteriaFields : Constrains(flt.input, f) }) = 2
    /\ \A f \in CriteriaFields :
          Constrains(flt.input, f) => Satisfies(flt.input, f, flt.row)

(***************************************************************************)
(* Claims about the upload handler and its import job (SpecUpload).        *)
(***************************************************************************)
\* C6: for every import job in status completed, successRows + errorRows =
\* processedRows and processedRows <= totalRows, whatever the file, the
\* column mapping and the batch writes that fail.
C6_CountersAddUp ==
    job.status = "completed"
    => /\ job.successRows + job.errorRows = job.processedRows
       /\ job.processedRows <= job.totalRows

Terminal == {"completed", "failed"}

StatusSteps == { <<"pending", "processing">>, <<"processing", "completed">>,
                 <<"processing", "failed">> }

C8_StatusRead ==
    rd.pc = "sent"
    => /\ ( rd.snap.status = "processing" /\ rd.seen # NoProgress )
          => /\ rd.resp.processedRows = rd.seen.processed
             /\ rd.resp.status = rd.seen.status
       /\ rd.snap.status \in Terminal => rd.resp = rd.snap

\* a read answered for a terminal job while a progress entry was present
C8_Witness ==
    /\ rd.pc = "sent"
    /\ rd.snap.status \in Terminal
    /\ rd.seen # NoProgress

\* C9: the error list of a job, in the handler and persisted, never holds
\* more than 100 descriptors; a run of 500 rows that all fail in the row
\* mapping ends with errorRows = 500 and a persisted list of exactly 100.
C9_ErrorListCapped ==
    /\ Len(up.errors) <= 100
    /\ Len(job.errors) <= 100
    /\ ( job.status = "completed" /\ ~up.mappingOk
          /\ job.processedRows = 500 )
       => /\ job.errorRows = 500
          /\ Len(job.errors) = 100

\* a completed run of 500 errored rows
C9_Witness ==
    /\ job.status = "completed"
    /\ job.errorRows = 500
    /\ Len(job.errors) = 100

\* the rows of the batch writes that failed
RECURSIVE FailedRows(_)
FailedRows(log) ==
    IF log = <<>> THEN 0
    ELSE (IF Head(log).outcome = "failed" THEN Len(Head(log).rows) ELSE 0)
         + FailedRows(Tail(log))

Rows(w) == { w.rows[k].row : k \in DOMAIN w.rows }

\* C10: a batch whose write failed is not written again; the errored
\* counter of the job grows by the rows of the failed batches and by nothing
\* else; the batches are attempted in file order; and failed writes do not
\* fail the job, which only a stream error does.
C10_FailedBatchSkipped ==
    /\ \A i, j \in DOMAIN writes :
           ( i # j /\ writes[i].outcome = "failed" )
           => Rows(writes[i]) \cap Rows(writes[j]) = {}
    /\ \A i, j \in DOMAIN writes :
           i < j => writes[i].rows[1].row <= writes[j].rows[1].row
    /\ ( job.status = "completed" /\ up.mappingOk )
       => job.errorRows = FailedRows(writes)
    /\ job.status = "failed" => stream.errored

\* C15: when a batch of a voter upload has been written, every record of
\* it that carries an identifier has a stored row of the tenant with that
\* identifier whose mapped fields equal the values of the record, whether
\* the row existed before the write or not.
C15_UpsertWritesValues ==
    [][ \A k \in DOMAIN writes :
          ( /\ up.importType = "voters"
            /\ writes[k].outcome = "pending"
            /\ writes'[k].outcome = "ok" )
          => \A i \in DOMAIN writes[k].rows :
                 LET rec == writes[k].rows[i] IN
                 rec.stateVoterId # NULL
                 => \E id \in DOMAIN voters' :
                        /\ voters'[id].organizationId = UploadOrg
                        /\ voters'[id].stateVoterId = rec.stateVoterId
                        /\ voters'[id].lastName = rec.lastName ]_vars

\* C16: a data row of an upload whose voter identifier is empty or missing
\* is never handed to the store in a batch, and no stored voter row lacks
\* its identifier because of an upload.
C16_NoIdRowsSkipped ==
    /\ \A k \in DOMAIN writes : \A i \in DOMAIN writes[k].rows :
           writes[k].rows[i].stateVoterId # NULL
    /\ \A id \in DOMAIN voters : voters[id].stateVoterId # NULL

\* C17: the response of the upload request carries the identifier of the
\* job created for the upload, and at the moment it is sent the file stream
\* has neither ended nor failed and the job is still processing.
C17_ReplyBeforeStreamEnd ==
    [][ ( ~reply.sent /\ reply'.sent )
        => /\ reply'.jobId = "job"
           /\ ~stream'.ended /\ ~stream'.errored
           /\ job'.status = "processing" ]_vars

\* C18: when a run of the import script has ended, its imported, updated,
\* skipped and errored counts add up to the number of data rows it read,
\* whichever store statements were rejected on the way.
C18_ScriptCountsAddUp ==
    \A r \in Runs :
        imp[r].pc = "done"
        => imp[r].stats.imported + imp[r].stats.updated
           + imp[r].stats.skipped + imp[r].stats.errors
           = imp[r].stats.totalRows

\* C19: a line parser splits the line at the commas that have an even
\* number of quote characters before them and at no other place, so it
\* returns one field more than there are such commas; in each piece a
\* doubled quote inside quotes becomes one quote character and every other
\* quote is dropped (the upload parser also trims the field); and the line
\* "Smith, ""Bob""",555-1234 gives the two fields Smith, "Bob" and 555-1234.
QuotesBefore(line, i) ==
    Cardinality({ j \in 1..(i - 1) : line[j] = Quote })

Separators(line) ==
    { i \in DOMAIN line : line[i] = Comma /\ QuotesBefore(line, i) % 2 = 0 }

RECURSIVE RawFields(_, _)
RawFields(line, from) ==
    LET seps == { i \in Separators(line) : i >= from } IN
    IF seps = {} THEN << SubSeq(line, from, Len(line)) >>
    ELSE LET m == CHOOSE i \in seps : \A j \in seps : i <= j
         IN << SubSeq(line, from, m - 1) >> \o RawFields(line, m + 1)

RECURSIVE Unquoted(_, _)
Unquoted(raw, quoted) ==
    IF raw = <<>> THEN <<>>
    ELSE IF Head(raw) # Quote
         THEN << Head(raw) >> \o Unquoted(Tail(raw), quoted)
    ELSE IF quoted /\ Len(raw) >= 2 /\ raw[2] = Quote
         THEN << Quote >> \o Unquoted(Tail(Tail(raw)), quoted)
    ELSE Unquoted(Tail(raw), ~quoted)

Expected(line, trim) ==
    LET raw == RawFields(line, 1) IN
    [ k \in 1..Len(raw) |->
        IF trim THEN Trim(Unquoted(raw[k], FALSE))
        ELSE Unquoted(raw[k], FALSE) ]

ExampleFields ==
    << << "S", "m", "i", "t", "h", Comma, Space, Quote, "B", "o", "b", Quote >>,
       << "5", "5", "5", "-", "1", "2", "3", "4" >> >>

ParsedAsClaimed(fields, trim) ==
    /\ Len(fields) = 1 + Cardinality(Separators(prs.line))
    /\ fields = Expected(prs.line, trim)
    /\ prs.line = ExampleLine => fields = ExampleFields

C19_ParsesQuotedFields ==
    /\ prs.upload # NoFields => ParsedAsClaimed(prs.upload, TRUE)
    /\ prs.script # NoFields => ParsedAsClaimed(prs.script, FALSE)

C19_Witness ==
    /\ prs.line = ExampleLine
    /\ prs.upload = ExampleFields
    /\ prs.script = ExampleFields

\* C20: once the upload stream of a job has ended or failed, the status of
\* the job eventually is completed or failed, whichever batch writes and
\* job updates are rejected.
C20_JobTerminates ==
    ( stream.ended \/ stream.errored )
        ~> ( job.status \in {"completed", "failed"} )

\* C21: in a step during which a batch write of the upload handler stays
\* outstanding, no row is parsed, none is added to a batch and no text is
\* taken into the line buffer.
C21_IntakePausedDuringWrite ==
    [][ ( \E k \in DOMAIN writes :
              writes[k].outcome = "pending" /\ writes'[k].outcome = "pending" )
        => /\ up'.processedRows = up.processedRows
           /\ up'.buffer = up.buffer
           /\ up'.batch \in {up.batch, <<>>} ]_vars

\* C22: in an upload run no row is submitted to the store in two batch
\* writes, no row of the batch is left unsubmitted when the job completes,
\* and the written and errored counts together never exceed the rows
\* processed.
C22_EachRowWrittenOnce ==
    /\ \A i, j \in DOMAIN writes :
           i # j => Rows(writes[i]) \cap Rows(writes[j]) = {}
    /\ job.status = "completed"
       => \A b \in DOMAIN up.batch :
              \E k \in DOMAIN writes : up.batch[b].row \in Rows(writes[k])
    /\ up.successRows + up.errorRows <= up.processedRows

\* C23: the progress cache holds an entry for the job while the job is
\* processing and its stream handlers are registered, and holds none once
\* the job is completed or failed and the handler that finalized it has
\* returned.
C23_ProgressEntryLifecycle ==
    /\ ( job.status = "processing" /\ Registered ) => progress # NoProgress
    /\ ( job.status \in Terminal /\ ( endH.pc = "done" \/ errH.pc = "done" ) )
       => progress = NoProgress

\* C24: processedRows of a status response is never smaller than
\* processedRows of the response before it, whether the job was processing,
\* completed or failed at either read.
C24_ReportedRowsMonotone ==
    rd.pc = "sent" => rd.resp.processedRows >= rd.last

\* C25: when two populate requests for one list, and no other list
\* request, have both returned successfully, the members of the list are the
\* match set of the criteria of one of the two, and the criteria stored on
\* the list are criteria with that match set.
C25_ConcurrentPopulates ==
    \A p, q \in Reqs :
        ( /\ p # q
          /\ pop[p].pc = "done" /\ pop[p].status = 200
          /\ pop[q].pc = "done" /\ pop[q].status = 200
          /\ pop[p].listId = pop[q].listId
          /\ listOps = 2 )
        => LET l == pop[p].listId
               M == MembersOf(l)
           IN /\ \/ M = MatchSet(InEffect(pop[p]), pop[p].org)
                 \/ M = MatchSet(InEffect(pop[q]), pop[q].org)
              /\ M = MatchSet(lists[l].filterCriteria,
                              lists[l].organizationId)

\* C26: every member of a list is a voter of the tenant that owns the
\* list, and an add or remove request changes the members of a list only
\* when the list named is owned by the tenant of the request.
MembersOfOwnTenant ==
    \A m \in members :
        voters[m.voterId].organizationId = lists[m.listId].organizationId

C26_ListsTenantIsolated ==
    /\ []MembersOfOwnTenant
    /\ [][ ( listOps' # listOps /\ members' # members )
           => lists[lastResp'.listId].organizationId = lastResp'.org ]_vars

\* C27: the voter search selects a row for a query string exactly when
\* the populator selects it for the criteria that say the same: each list
\* field holding the one value of the parameter, supportLevel the number of
\* the parameter, hasPhone and hasEmail set when the parameter is "true".
SameCriteria(query) ==
    [ f \in DOMAIN query |->
        IF f \in {"hasPhone", "hasEmail"} THEN query[f] = "true"
        ELSE IF query[f] = "" THEN <<>>
        ELSE IF f = "supportLevel" THEN << ParseInt(query[f]) >>
        ELSE << query[f] >> ]

C27_SearchEqualsPopulate ==
    flt.pc = "searched"
    => ( flt.selected
         <=> PopulateSelects(SameCriteria(flt.input), flt.org, flt.row) )

\* C28: when an upload of voters has completed and one of its batches held
\* the same identifier twice, the tenant has exactly one row for that
\* identifier and its last name is the one of the file's last occurrence
C28_LastOccurrenceWins ==
    ( /\ job.status = "completed"
      /\ up.importType = "voters"
      /\ \E k \in DOMAIN writes : SameIdTwice(writes[k].rows) )
    => LET held == { id \in DOMAIN voters :
                       /\ voters[id].organizationId = UploadOrg
                       /\ voters[id].stateVoterId = "V1" }
       IN /\ Cardinality(held) = 1
          /\ \A id \in held : voters[id].lastName = "Lee2"

\* C29: a data line with unbalanced quotes (an odd number of quote
\* characters) that the upload handler has gone through was counted as an
\* errored row and was not put into the batch
OddQuotes(line) ==
    Cardinality({ i \in DOMAIN line : line[i] = Quote }) % 2 = 1

C29_UnbalancedRowErrored ==
    ( prs.row # "none" /\ OddQuotes(prs.line) ) => prs.row = "throw"

\* C30: the row count of a completed upload job is the number of data lines
\* the stream delivered, however they were cut into chunks: the lines the
\* handlers have counted, with none left waiting in the loop of the data
\* handler
C30_CountIndependentOfChunks ==
    job.status = "completed"
    => job.processedRows = up.processedRows + RowsIn(dataH.rest)

\* C11: when the upload stream has raised an error and the error handler
\* has run, the status of the job is failed, its persisted error list holds
\* a descriptor with row 0 for the error, and the progress cache has no
\* entry for the job.
C11_StreamErrorFailsJob ==
    errH.pc = "done"
    => /\ job.status = "failed"
       /\ \E k \in DOMAIN job.errors :
             job.errors[k] = [row |-> 0, kind |-> "stream"]
       /\ progress = NoProgress

\* C12: a populate request that supplies no criteria, for a list of the
\* caller that stores none, is rejected with a validation error (400), and
\* the members and the stored criteria of every list are as they were.
C12_NoCriteriaRejected ==
    [][ \A p \in Reqs :
          ( /\ pop[p].pc \in {"idle", "done"}
            /\ pop'[p] # pop[p]
            /\ pop'[p].supplied = NoCriteria
            /\ FindList(pop'[p].listId, pop'[p].org) # {}
            /\ lists[pop'[p].listId].filterCriteria = NoCriteria )
          => /\ pop'[p].pc = "done"
             /\ pop'[p].status = 400
             /\ members' = members
             /\ lists' = lists ]_vars

\* a request was rejected for want of criteria on a list that has members
C12_Witness ==
    \E p \in Reqs :
        /\ pop[p].pc = "done"
        /\ pop[p].status = 400
        /\ MembersOf(pop[p].listId) # {}
        /\ lists[pop[p].listId].filterCriteria = NoCriteria

\* C13: after any sequence of imports a voter has at most one row of
\* election history per election date: a second insert of the same (voter,
\* election date), in the same run or in a re-import, stores no second row.
C13_OneHistoryRowPerElection ==
    \A i, j \in DOMAIN elections :
        ( /\ i # j
          /\ elections[i].voterId = elections[j].voterId )
        => elections[i].electionDate # elections[j].electionDate

(***************************************************************************)
(* Claims about interactions (SpecInteractions).                           *)
(***************************************************************************)
\* the voters table with the support level of one voter set
WithLevel(id, level) ==
    [ x \in VoterKeys |->
        IF x = id THEN [voters[x] EXCEPT !.supportLevel = level]
        ELSE voters[x] ]

\* C14: an interaction created with a support level for a voter of the
\* tenant of the caller sets the supportLevel of that voter to the value;
\* one created without a support level leaves it as it was; in both cases
\* no other voter row changes; a request that names a voter outside the
\* tenant of the caller writes nothing.
C14_SupportLevelWriteBack ==
    [][ \A r \in IReqs :
          LET a == ireq[r]
              b == ireq'[r]
          IN a # b
             => /\ ( b.voterId \in VoterKeys
                     /\ voters[b.voterId].organizationId # b.org )
                   => ( voters' = voters /\ inter' = inter
                        /\ b.status = 404 )
                /\ ( b.status = 200 /\ b.supportLevel # NoLevel )
                   => /\ voters[b.voterId].organizationId = b.org
                      /\ voters' = WithLevel(b.voterId, b.supportLevel)
                /\ ( b.supportLevel = NoLevel \/ b.status \notin {0, 200} )
                   => voters' = voters
                /\ b.status = 0 => voters' = voters ]_vars

\* an interaction with a support level has been created for a voter whose
\* level was another one, and a request for a voter of another tenant has
\* been answered
C14_Witness ==
    \E r, q \in IReqs :
        /\ ireq[r].status = 200
        /\ ireq[r].supportLevel = 4
        /\ voters[ireq[r].voterId].supportLevel = 4
        /\ ireq[q].status = 404
        /\ ireq[q].voterId \in VoterKeys
        /\ ireq[q].supportLevel # NoLevel

====
